---- MODULE Spec2Model ----
(***************************************************************************)
(* Incremental batch classification and merge engine of                    *)
(* src/code/detal_json/paper_search_classify.py.                           *)
(*                                                                         *)
(* A paper is modelled by its identity: the paper at position j of the     *)
(* searched list is the number j.  A category object (ClassificationResult)*)
(* is the record [category, papers, summary]; a summary is a sequence of   *)
(* characters.  A backend reply is the pair of its text, abstracted to a   *)
(* sequence of tokens, and of the entries of its "categories" array.       *)
(***************************************************************************)
EXTENDS Integers, Sequences, FiniteSets, TLC

\* ------------------------------------------------------------------------
\* Bounds of the model
\* ------------------------------------------------------------------------
MaxPapers == 3

MaxBatchSize == 2

MaxNegBatch == 1

MaxPlanPapers == 8

MaxPlanBatch == 4

MaxIdxLen == 3

MaxTextLen == 5

\* ------------------------------------------------------------------------
\* Program constants
\* ------------------------------------------------------------------------
PreviewLen == 100

None == "None"

VARIABLES
    papers,               \* the searched papers handed to classification
    batch_size,           \* provider.batch_size
    provider,             \* the class of the provider that runs
    existing_categories,  \* the caller's seed list (its objects are shared)
    all_results,          \* the accumulated state, local to classify_papers
    batch_count,          \* local batch_count
    batch_idx,            \* loop variable, 0-based
    pc,                   \* position of the run
    prompt,               \* the prompt of the latest completion call
    calls,                \* number of completion calls made
    raised,               \* the exception in flight, or None
    console,              \* failure lines printed to the console
    returned,             \* value returned by provider.classify_papers, or None
    search_saved,         \* save_search_results has written its file
    saved_files,          \* files written by save_classification_results
    pipeline_result,      \* dict returned by run_full_pipeline, or None
    reply,                \* the completion result being processed, or None
    assigned,             \* history: papers some reply referenced in range
    scenario,             \* history: the run so far is the one-category run
    arg,                  \* input of a function applied in isolation
    res                   \* its result, or None

vars == <<papers, batch_size, provider, existing_categories, all_results, batch_count,
          batch_idx, pc, prompt, calls, raised, console, returned,
          search_saved, saved_files, pipeline_result, reply, assigned,
          scenario, arg, res>>

\* ------------------------------------------------------------------------
\* Python arithmetic and sequence primitives
\* ------------------------------------------------------------------------
Min2(a, b) == IF a <= b THEN a ELSE b

Max2(a, b) == IF a >= b THEN a ELSE b

\* a // b (floor division), b # 0
FloorDiv(a, b) == IF b > 0 THEN a \div b ELSE (0 - a) \div (0 - b)

\* stands for the IndexError of an index outside the list (no paper is -1)
IndexError == 0 - 1

\* seq[i] with a 0-based index; a negative index counts from the end
PyIndex(seq, i) ==
    IF i < 0 - Len(seq) \/ i >= Len(seq) THEN IndexError
    ELSE IF i < 0 THEN seq[Len(seq) + i + 1] ELSE seq[i + 1]

\* seq[start:end]
PySlice(seq, start, end) ==
    LET norm(x) == IF x < 0 THEN Max2(x + Len(seq), 0) ELSE Min2(x, Len(seq))
    IN  SubSeq(seq, norm(start) + 1, norm(end))

\* s[:k]
Take(s, k) == SubSeq(s, 1, Min2(Len(s), k))

SetMin(S) == CHOOSE x \in S : \A y \in S : x <= y

\* ------------------------------------------------------------------------
\* Batch planning (classify_papers, lines 78 and 84-86)
\* ------------------------------------------------------------------------
\* mutant: the batch count rounds down
BatchCount_Floor(n, b) == FloorDiv(n, b)

BatchCount(n, b) == FloorDiv(n + b - 1, b)

StartIdx(k, b) == k * b

EndIdx(k, b, n) == Min2(StartIdx(k, b) + b, n)

BatchPapers(ps, k, b) == PySlice(ps, StartIdx(k, b), EndIdx(k, b, Len(ps)))

\* ------------------------------------------------------------------------
\* Prompt building
\* ------------------------------------------------------------------------
FormatPapers(batch) == [i \in 1..Len(batch) |-> [no |-> i, paper |-> batch[i]]]

ExistingInfo(cats) ==
    [i \in 1..Len(cats) |->
        [no |-> i, category |-> cats[i].category, count |-> Len(cats[i].papers),
         preview |-> Take(cats[i].summary, PreviewLen)]]

CreateClassificationPrompt(papers_text, cats) ==
    [papers_text |-> papers_text, existing_info |-> ExistingInfo(cats)]

\* ------------------------------------------------------------------------
\* Response parsing, entries part (_parse_classification_result, 179-194)
\* ------------------------------------------------------------------------
\* mutant: the lower test admits 0
IndexInRange_ZeroAllowed(idx, batch) == 0 <= idx /\ idx <= Len(batch)

IndexInRange(idx, batch) == 0 < idx /\ idx <= Len(batch)

CategoryPapers(paper_indices, batch) ==
    LET kept == SelectSeq(paper_indices, LAMBDA idx : IndexInRange(idx, batch))
    IN  [j \in 1..Len(kept) |-> PyIndex(batch, kept[j] - 1)]

\* dict.get(key, default): the default stands in only for an absent key
DictGet(d, key, default) == IF key \in DOMAIN d THEN d[key] ELSE default

\* the default name of line 181, "未命名类别" in the source
DefaultName == "unnamed category"

\* the empty text, default of a summary (line 183)
EmptyText == <<>>

\* mutant: an entry flagged as existing does not bring a summary
ParseEntries_FlagDropsSummary(cats, batch) ==
    [j \in 1..Len(cats) |->
        [category |-> DictGet(cats[j], "name", DefaultName),
         papers   |-> CategoryPapers(DictGet(cats[j], "paper_indices", <<>>), batch),
         summary  |-> IF DictGet(cats[j], "is_existing", FALSE) THEN EmptyText
                      ELSE DictGet(cats[j], "summary", EmptyText)]]

\* mutant: an entry none of whose indices is valid gives no tuple
ParseEntries_SkipsEmpty(cats, batch) ==
    LET all == [j \in 1..Len(cats) |->
                  [category |-> DictGet(cats[j], "name", DefaultName),
                   papers   |-> CategoryPapers(DictGet(cats[j], "paper_indices", <<>>),
                                               batch),
                   summary  |-> DictGet(cats[j], "summary", EmptyText)]]
    IN  SelectSeq(all, LAMBDA t : t.papers # <<>>)

\* the loop of lines 180-192; is_existing is read at line 184 and not used
ParseEntries(cats, batch) ==
    [j \in 1..Len(cats) |->
        LET category_name == DictGet(cats[j], "name", DefaultName)
            paper_indices == DictGet(cats[j], "paper_indices", <<>>)
            summary       == DictGet(cats[j], "summary", EmptyText)
            is_existing   == DictGet(cats[j], "is_existing", FALSE)
        IN  [category |-> category_name,
             papers   |-> CategoryPapers(paper_indices, batch),
             summary  |-> summary]]

\* ------------------------------------------------------------------------
\* Merging (_merge_results, 196-214)
\* ------------------------------------------------------------------------
\* mutant: the name comparison never succeeds
MergeOne_AlwaysAppend(merged, batch_cat) == Append(merged, batch_cat)

\* mutant: a merge into an existing category also takes the new summary
MergeOne_OverwriteSummary(merged, batch_cat) ==
    LET hits == {i \in 1..Len(merged) : merged[i].category = batch_cat.category}
    IN  IF hits # {}
        THEN [merged EXCEPT ![SetMin(hits)].papers = @ \o batch_cat.papers,
                            ![SetMin(hits)].summary = batch_cat.summary]
        ELSE Append(merged, batch_cat)

\* mutant: a merge into an existing category replaces its members
MergeOne_ReplacesMembers(merged, batch_cat) ==
    LET hits == {i \in 1..Len(merged) : merged[i].category = batch_cat.category}
    IN  IF hits # {}
        THEN [merged EXCEPT ![SetMin(hits)].papers = batch_cat.papers]
        ELSE Append(merged, batch_cat)

\* mutant: the scan keeps going and the last category of that name is taken
MergeOne_LastMatch(merged, batch_cat) ==
    LET hits == {i \in 1..Len(merged) : merged[i].category = batch_cat.category}
    IN  IF hits # {}
        THEN [merged EXCEPT ![CHOOSE i \in hits : \A h \in hits : h <= i].papers =
                                 @ \o batch_cat.papers]
        ELSE Append(merged, batch_cat)

\* the name in lower case
Lower(name) == IF name = "A" THEN "a" ELSE IF name = "B" THEN "b" ELSE name

\* mutant: names are compared without regard to letter case
MergeOne_IgnoreCase(merged, batch_cat) ==
    LET hits == {i \in 1..Len(merged) :
                    Lower(merged[i].category) = Lower(batch_cat.category)}
    IN  IF hits # {}
        THEN [merged EXCEPT ![SetMin(hits)].papers = @ \o batch_cat.papers]
        ELSE Append(merged, batch_cat)

MergeOne(merged, batch_cat) ==
    LET hits == {i \in 1..Len(merged) : merged[i].category = batch_cat.category}
    IN  IF hits # {}
        THEN [merged EXCEPT ![SetMin(hits)].papers = @ \o batch_cat.papers]
        ELSE Append(merged, batch_cat)

RECURSIVE MergeFrom(_, _, _)
MergeFrom(merged, batch_results, j) ==
    IF j > Len(batch_results) THEN merged
    ELSE MergeFrom(MergeOne(merged, batch_results[j]), batch_results, j + 1)

MergeResults(existing_results, batch_results) ==
    MergeFrom(existing_results, batch_results, 1)

\* ------------------------------------------------------------------------
\* Response parsing, text part (_parse_classification_result, 170-177)
\*
\* A completion text is a sequence of tokens: "{" and "}" are the braces,
\* "m" is a complete member whose value holds no brace ("categories": []),
\* "k" is a key with its colon that introduces an object value, and "t" is
\* any other text (prose, a code fence).
\* ------------------------------------------------------------------------
Tokens == {"{", "}", "m", "k", "t"}

Opens(s, p) == Cardinality({q \in 1..p : s[q] = "{"})

Closes(s, p) == Cardinality({q \in 1..p : s[q] = "}"})

Depth(s, p) == Opens(s, p) - Closes(s, p)

\* re.search finds nothing (a match holds at least its two braces)
NoMatch == <<>>

\* re.search(r'\{[\s\S]*\}', text): leftmost "{", then greedily to the last "}"
RegexSearch(text) ==
    LET starts == {i \in 1..Len(text) : text[i] = "{"}
        ends   == {j \in 1..Len(text) : text[j] = "}"}
    IN  IF starts = {} \/ ends = {} THEN NoMatch
        ELSE LET i == SetMin(starts)
                 j == CHOOSE x \in ends : \A y \in ends : y <= x
             IN  IF j > i THEN SubSeq(text, i, j) ELSE NoMatch

\* json.loads accepts s:  Obj ::= "{" Member* "}",  Member ::= "m" | "k" Obj
JsonValid(s) ==
    /\ Len(s) >= 2
    /\ s[1] = "{"
    /\ \A p \in 1..Len(s) : s[p] \in {"{", "}", "m", "k"}
    /\ \A p \in 1..(Len(s) - 1) : Depth(s, p) >= 1
    /\ Depth(s, Len(s)) = 0
    /\ \A p \in 2..Len(s) : s[p] = "{" => s[p - 1] = "k"
    /\ \A p \in 1..Len(s) : s[p] = "k" => (p < Len(s) /\ s[p + 1] = "{")

\* mutant: a match that json.loads rejects is read as an empty object
ParseText_Lenient(text) ==
    LET m == RegexSearch(text)
    IN  IF m = NoMatch THEN [ok |-> FALSE, error |-> "no_json"]
        ELSE [ok |-> TRUE, value |-> IF JsonValid(m) THEN m ELSE <<"{", "}">>]

ParseText(text) ==
    LET m == RegexSearch(text)
    IN  IF m = NoMatch THEN [ok |-> FALSE, error |-> "no_json"]
        ELSE IF ~JsonValid(m) THEN [ok |-> FALSE, error |-> "json_decode"]
        ELSE [ok |-> TRUE, value |-> m]

\* ------------------------------------------------------------------------
\* Inputs of the run
\* ------------------------------------------------------------------------
PaperList(n) == [j \in 1..n |-> j]

BatchSizes == (0 - MaxNegBatch)..MaxBatchSize

Names == {"A", "B"}

Summaries == {<<"s", "1">>, <<"s", "2">>}

Ascending(len) == [j \in 1..len |-> j]

\* paper_indices of a reply entry for a batch of len papers
IndexLists(len) == {<<>>, <<1>>, Ascending(len), <<0, 1, len + 1>>}

Entries(len) ==
    [name : Names, paper_indices : IndexLists(len), summary : Summaries]

\* the "categories" array of a reply: no entry, one entry or two entries
Replies(len) ==
    {<<>>} \cup {<<e>> : e \in Entries(len)}
           \cup {<<e1, e2>> : e1 \in Entries(len), e2 \in Entries(len)}

ReplyTexts ==
    {<<"t", "{", "m", "}">>, <<"t">>, <<"}", "{">>, <<"{", "t", "}">>,
     <<"{", "m", "}", "t", "}">>}

TransportErrors == {"quota"}

\* ------------------------------------------------------------------------
\* Persisting (save_classification_results, 693-752)
\* ------------------------------------------------------------------------
\* re.sub(r'[<>:"/\\|?*]', '_', filename): of the names of the model only
\* "A/B" holds a character of the class
SanitizeFilename(filename) == IF filename = "A/B" THEN "A_B" ELSE filename

\* mutant: the file of a category is named after the category alone
CategoryFilename_NoIndex(i, category) == <<1, SanitizeFilename(category)>>

\* f"{i + 1:02d}_{sanitized}.json" for the i-th category, counted from 1
CategoryFilename(i, category) == <<i, SanitizeFilename(category)>>

\* "00_classification_summary.json"
SummaryFile == <<0, "classification_summary">>

RECURSIVE TotalPapers(_)
\* sum(len(r.papers) for r in results)
TotalPapers(results) ==
    IF results = <<>> THEN 0
    ELSE Len(Head(results).papers) + TotalPapers(Tail(results))

\* the documents written, in the order of the returned list of files: the
\* summary first, then one document per category
SaveClassificationResults(results) ==
    <<[file |-> SummaryFile,
       data |-> [total_papers |-> TotalPapers(results),
                 categories |->
                    [i \in 1..Len(results) |->
                        [name |-> results[i].category,
                         paper_count |-> Len(results[i].papers),
                         summary |-> results[i].summary,
                         file |-> CategoryFilename(i, results[i].category)]]]]>>
    \o
    [i \in 1..Len(results) |->
        [file |-> CategoryFilename(i, results[i].category),
         data |-> [name |-> results[i].category,
                   paper_count |-> Len(results[i].papers),
                   summary |-> results[i].summary,
                   papers |-> results[i].papers]]]

\* ------------------------------------------------------------------------
\* History variables
\* ------------------------------------------------------------------------
\* the papers of the batch that the entries of cats reference in range
Referenced(cats, batch) ==
    {batch[i] : i \in {x \in 1..Len(batch) :
        \E j \in 1..Len(cats) : \E q \in 1..Len(cats[j].paper_indices) :
            cats[j].paper_indices[q] = x}}

\* status "fresh" before the first reply; "single" while every reply so far
\* was one entry listing its whole batch in ascending order under one name
\* (name and summary are the first reply's); "broken" otherwise
FreshScenario == [status |-> "fresh", name |-> "", summary |-> <<>>]

NextScenario(sc, cats, batch) ==
    IF /\ Len(cats) = 1
       /\ cats[1].paper_indices = Ascending(Len(batch))
       /\ sc.status = "fresh" \/ (sc.status = "single" /\ sc.name = cats[1].name)
    THEN IF sc.status = "fresh"
         THEN [status |-> "single", name |-> cats[1].name,
               summary |-> cats[1].summary]
         ELSE sc
    ELSE [status |-> "broken", name |-> "", summary |-> <<>>]

\* ------------------------------------------------------------------------
\* The run: run_full_pipeline -> classify_papers -> provider.classify_papers
\* ------------------------------------------------------------------------
fnVars == <<arg, res>>

inputVars == <<papers, batch_size, provider>>

fileVars == <<search_saved, saved_files, pipeline_result>>

histVars == <<assigned, scenario>>

\* the run before it starts
NotStarted ==
    /\ all_results = <<>>
    /\ batch_count = 0
    /\ batch_idx = 0
    /\ prompt = None
    /\ calls = 0
    /\ raised = None
    /\ console = <<>>
    /\ returned = None
    /\ search_saved = FALSE
    /\ saved_files = <<>>
    /\ pipeline_result = None
    /\ reply = None
    /\ assigned = {}
    /\ scenario = FreshScenario

\* no seed is passed: run_full_pipeline calls classify_papers(papers) (685)
Idle ==
    /\ existing_categories = <<>>
    /\ NotStarted

Init ==
    /\ papers \in {PaperList(n) : n \in 0..MaxPapers}
    /\ batch_size \in BatchSizes
    /\ provider = "OpenAIProvider"
    /\ pc = "pipeline"
    /\ Idle
    /\ arg = None
    /\ res = None

\* run_full_pipeline up to the call of classify_papers (764-772)
PipelineSearch ==
    /\ pc = "pipeline"
    /\ IF papers = <<>>
       THEN /\ pipeline_result' = [success |-> FALSE, papers_found |-> 0]
            /\ pc' = "done"
            /\ UNCHANGED search_saved
       ELSE /\ search_saved' = TRUE
            /\ pc' = "classify"
            /\ UNCHANGED pipeline_result
    /\ UNCHANGED <<inputVars, existing_categories, all_results, batch_count,
                   batch_idx, prompt, calls, raised, console, returned,
                   saved_files, reply, histVars, fnVars>>

\* provider.classify_papers before its loop (74-81)
ClassifyStart ==
    /\ pc = "classify"
    /\ IF papers = <<>>
       THEN /\ returned' = <<>>
            /\ pc' = "returned"
            /\ UNCHANGED <<all_results, batch_count, raised>>
       ELSE IF batch_size = 0
       THEN /\ raised' = [type |-> "ZeroDivisionError", detail |-> "division by zero"]
            /\ pc' = "raised"
            /\ all_results' = existing_categories
            /\ UNCHANGED <<batch_count, returned>>
       ELSE /\ all_results' = existing_categories
            /\ batch_count' = BatchCount(Len(papers), batch_size)
            /\ pc' = "loop"
            /\ UNCHANGED <<raised, returned>>
    /\ batch_idx' = 0
    /\ UNCHANGED <<inputVars, existing_categories, prompt, calls, console,
                   fileVars, reply, histVars, fnVars>>

\* mutant: the reply is read against the whole paper list
CurrentBatch_WholeList == papers

\* the batch of the current loop iteration (84-86)
CurrentBatch == BatchPapers(papers, batch_idx, batch_size)

\* mutant: every prompt is built from the state the run started with
SendPrompt_StaleState ==
    /\ pc = "loop"
    /\ batch_idx < batch_count
    /\ prompt' = CreateClassificationPrompt(FormatPapers(CurrentBatch),
                                            existing_categories)
    /\ calls' = calls + 1

\* mutant: the prompt carries the number of the request
SendPrompt_Numbered ==
    /\ pc = "loop"
    /\ batch_idx < batch_count
    /\ prompt' = [papers_text |-> FormatPapers(CurrentBatch),
                  existing_info |-> ExistingInfo(all_results),
                  request_no |-> calls + 1]
    /\ calls' = calls + 1

\* a loop iteration up to the completion call (84-102): the prompt is built
\* from the accumulated state and the request is sent
SendPrompt ==
    /\ pc = "loop"
    /\ batch_idx < batch_count
    /\ prompt' = CreateClassificationPrompt(FormatPapers(CurrentBatch), all_results)
    /\ calls' = calls + 1

\* mutant: the handler prints and goes on with the next batch
BatchFailure_Continue(e) ==
    /\ console' = Append(console, [source |-> "provider", batch |-> batch_idx + 1,
                                  detail |-> e.detail])
    /\ batch_idx' = batch_idx + 1
    /\ pc' = "loop"
    /\ reply' = None
    /\ UNCHANGED <<inputVars, existing_categories, all_results, batch_count,
                   raised, returned, fileVars, histVars, fnVars>>

\* mutant: the printed batch number is the 0-based loop index
BatchFailure_LogsLoopIndex(e) ==
    /\ console' = Append(console, [source |-> "provider", batch |-> batch_idx,
                                  detail |-> e.detail])
    /\ raised' = e
    /\ pc' = "raised"
    /\ reply' = None
    /\ UNCHANGED <<inputVars, existing_categories, all_results, batch_count,
                   batch_idx, returned, fileVars, histVars, fnVars>>

\* mutant: the handler prints and sends the same batch again
BatchFailure_Retry(e) ==
    /\ console' = Append(console, [source |-> "provider", batch |-> batch_idx + 1,
                                  detail |-> e.detail])
    /\ pc' = "loop"
    /\ reply' = None
    /\ UNCHANGED <<inputVars, existing_categories, all_results, batch_count,
                   batch_idx, raised, returned, fileVars, histVars, fnVars>>

\* except Exception as e: print(...); raise  (109-111)
BatchFailure(e) ==
    /\ console' = Append(console, [source |-> "provider", batch |-> batch_idx + 1,
                                  detail |-> e.detail])
    /\ raised' = e
    /\ pc' = "raised"
    /\ reply' = None
    /\ UNCHANGED <<inputVars, existing_categories, all_results, batch_count,
                   batch_idx, returned, fileVars, histVars, fnVars>>

\* the completion call raises
BatchCallFails ==
    /\ SendPrompt
    /\ \E d \in TransportErrors : BatchFailure([type |-> "APIError", detail |-> d])

\* the completion call returns a text (94-104)
BatchCall ==
    /\ SendPrompt
    /\ \E text \in ReplyTexts :
          \E cats \in (IF ParseText(text).ok THEN Replies(Len(CurrentBatch))
                                             ELSE {<<>>}) :
             reply' = [text |-> text, categories |-> cats]
    /\ pc' = "reply"
    /\ UNCHANGED <<inputVars, existing_categories, all_results, batch_count,
                   batch_idx, raised, console, returned, fileVars, histVars,
                   fnVars>>

\* the parser rejects the text (170-177)
BatchParseFails ==
    /\ pc = "reply"
    /\ ~ParseText(reply.text).ok
    /\ BatchFailure([type |-> "ValueError", detail |-> ParseText(reply.text).error])
    /\ UNCHANGED <<prompt, calls>>

\* the reply is parsed and merged, and the loop advances (105-107); the
\* DeepSeek copy of the loop then waits (415-417)
BatchMerge ==
    /\ pc = "reply"
    /\ ParseText(reply.text).ok
    /\ all_results' =
          MergeResults(all_results, ParseEntries(reply.categories, CurrentBatch))
    /\ existing_categories' = SubSeq(all_results', 1, Len(existing_categories))
    /\ batch_idx' = batch_idx + 1
    /\ pc' = IF provider = "DeepSeekProvider" THEN "sleep" ELSE "loop"
    /\ reply' = None
    /\ assigned' = assigned \cup Referenced(reply.categories, CurrentBatch)
    /\ scenario' = NextScenario(scenario, reply.categories, CurrentBatch)
    /\ UNCHANGED <<inputVars, batch_count, prompt, calls, raised, console,
                   returned, fileVars, fnVars>>

\* the loop is exhausted: return all_results (113)
ClassifyReturn ==
    /\ pc = "loop"
    /\ batch_idx >= batch_count
    /\ returned' = all_results
    /\ pc' = "returned"
    /\ UNCHANGED <<inputVars, existing_categories, all_results, batch_count,
                   batch_idx, prompt, calls, raised, console, fileVars, reply,
                   histVars, fnVars>>

\* mutant: the result is saved and reported whether or not it is empty
PipelineSave_AlwaysSaves ==
    /\ pc = "returned"
    /\ saved_files' = SaveClassificationResults(returned)
    /\ pipeline_result' = [success |-> TRUE, papers_found |-> Len(papers),
                           categories |-> Len(returned)]
    /\ pc' = "done"
    /\ UNCHANGED <<inputVars, existing_categories, all_results, batch_count,
                   batch_idx, prompt, calls, raised, console, returned,
                   search_saved, reply, histVars, fnVars>>

\* run_full_pipeline after classify_papers returned (774-791)
PipelineSave ==
    /\ pc = "returned"
    /\ IF returned = <<>>
       THEN /\ pipeline_result' = [success |-> FALSE, papers_found |-> Len(papers)]
            /\ UNCHANGED saved_files
       ELSE /\ saved_files' = SaveClassificationResults(returned)
            /\ pipeline_result' = [success |-> TRUE, papers_found |-> Len(papers),
                                   categories |-> Len(returned)]
    /\ pc' = "done"
    /\ UNCHANGED <<inputVars, existing_categories, all_results, batch_count,
                   batch_idx, prompt, calls, raised, console, returned,
                   search_saved, reply, histVars, fnVars>>

\* the exception leaves classify_papers (689-691) and run_full_pipeline
PipelineAbort ==
    /\ pc = "raised"
    /\ console' = Append(console, [source |-> "classifier", detail |-> raised.detail])
    /\ pc' = "aborted"
    /\ UNCHANGED <<inputVars, existing_categories, all_results, batch_count,
                   batch_idx, prompt, calls, raised, returned, fileVars, reply,
                   histVars, fnVars>>

Next ==
    \/ PipelineSearch
    \/ ClassifyStart
    \/ BatchCallFails
    \/ BatchCall
    \/ BatchParseFails
    \/ BatchMerge
    \/ ClassifyReturn
    \/ PipelineSave
    \/ PipelineAbort

Spec == Init /\ [][Next]_vars

\* ------------------------------------------------------------------------
\* Properties of the run
\* ------------------------------------------------------------------------
UniqueNames(cats) ==
    \A i, j \in 1..Len(cats) : cats[i].category = cats[j].category => i = j

\* C1: in a run started from an empty accumulated state, after any sequence
\* of batch merges no two categories of the state hold the same name.
C1_AtMostOneCategoryPerName ==
    existing_categories = <<>> => UniqueNames(all_results)

\* a name merged three times: twice by the reply to batch 1, once by batch 2
C1_Witness ==
    /\ batch_size = 1
    /\ batch_idx = 2
    /\ Len(all_results) = 1
    /\ all_results[1].papers = <<1, 1, 2>>

\* number of places the paper p holds in the members of cats
Occurrences(cats, p) ==
    Cardinality({x \in UNION {{<<i, q>> : q \in 1..Len(cats[i].papers)} :
                              i \in 1..Len(cats)} :
                    cats[x[1]].papers[x[2]] = p})

\* C2: after a successful run every paper that some reply referenced by an
\* in-range index is a member of exactly one category, exactly once, and no
\* other paper is a member.
C2_AssignedExactlyOnce ==
    pc = "returned" =>
        \A p \in 1..Len(papers) :
            Occurrences(returned, p) = IF p \in assigned THEN 1 ELSE 0

\* a batch failed: the provider printed its failure line
Failed == pc \in {"raised", "aborted"}

\* C4: once the completion call or the parser has failed on batch k the run
\* is over: k completion calls were made and no further one follows, nothing
\* is returned to the caller and no classification file is written.
C4_AbortOnBatchFailure ==
    \A q \in 1..Len(console) :
        console[q].source = "provider" =>
            /\ Failed
            /\ calls = console[q].batch
            /\ batch_idx = console[q].batch - 1
            /\ returned = None
            /\ saved_files = <<>>

\* batch 2 failed after batch 1 had been merged
C4_Witness ==
    /\ pc = "aborted"
    /\ calls = 2
    /\ all_results # <<>>
    /\ console[1].source = "provider"

BatchError == Failed /\ raised.type # "ZeroDivisionError"

C6_DescriptionFixedAtCreation ==
    [][ /\ \A i \in 1..Len(all_results) :
              /\ i <= Len(all_results')
              /\ all_results'[i].summary = all_results[i].summary
        /\ (pc = "reply" /\ pc' = "loop") =>
              \A i \in (Len(all_results) + 1)..Len(all_results') :
                 LET js == {j \in 1..Len(reply.categories) :
                               reply.categories[j].name = all_results'[i].category}
                 IN  /\ js # {}
                     /\ all_results'[i].summary = reply.categories[SetMin(js)].summary
      ]_vars

\* category "A" exists with the summary of batch 1 and the reply to batch 2
\* names "A" with another summary
C6_Witness ==
    /\ pc = "reply"
    /\ batch_idx = 1
    /\ all_results = <<[category |-> "A", papers |-> <<1>>, summary |-> <<"s", "1">>]>>
    /\ reply.categories = <<[name |-> "A", paper_indices |-> <<1>>,
                             summary |-> <<"s", "2">>]>>

\* C8: a completion call is issued only when every earlier batch has been
\* parsed and merged, and the existing-category section of its prompt lists
\* exactly the names and member counts of the accumulated state.
C8_PromptListsMergedState ==
    [][ calls' # calls =>
          /\ calls' = calls + 1
          /\ pc = "loop"
          /\ calls = batch_idx
          /\ Len(prompt'.existing_info) = Len(all_results)
          /\ \A i \in 1..Len(all_results) :
                /\ prompt'.existing_info[i].category = all_results[i].category
                /\ prompt'.existing_info[i].count = Len(all_results[i].papers)
      ]_vars

\* the prompt of the second call lists two categories
C8_Witness ==
    /\ pc = "reply"
    /\ calls = 2
    /\ Len(prompt.existing_info) = 2

\* the entries of a reply to batch k (0-based), read as global paper numbers
GlobalTuples(cats, k, b, n) ==
    [j \in 1..Len(cats) |->
        [category |-> cats[j].name,
         papers   |->
            LET kept == SelectSeq(cats[j].paper_indices,
                            LAMBDA i : 1 <= i /\ i <= Min2(b, n - k * b))
            IN  [q \in 1..Len(kept) |-> k * b + kept[q]],
         summary  |-> cats[j].summary]]

\* C9: with a batch size b > 0, index i of the reply to batch k stands for
\* paper (k-1)*b + i; a run whose every reply lists its whole batch in
\* ascending order under one name returns one category holding all papers in
\* input order, with the summary of the first reply.
C9_IndicesRelativeToBatch ==
    [][ batch_size > 0 =>
          /\ (pc = "reply" /\ pc' = "loop") =>
                all_results' =
                    MergeResults(all_results,
                        GlobalTuples(reply.categories, batch_idx, batch_size,
                                     Len(papers)))
          /\ (pc' = "returned" /\ scenario'.status = "single") =>
                returned' = <<[category |-> scenario'.name, papers |-> papers,
                               summary |-> scenario'.summary]>>
      ]_vars

\* 3 papers in batches of 2, replies "A": [1, 2] then "A": [1]
C9_Witness ==
    /\ pc = "returned"
    /\ Len(papers) = 3
    /\ batch_size = 2
    /\ scenario.status = "single"
    /\ scenario.name = "A"
    /\ returned = <<[category |-> "A", papers |-> <<1, 2, 3>>,
                    summary |-> scenario.summary]>>

\* ------------------------------------------------------------------------
\* Functions applied in isolation: arg is the input, res the result
\* ------------------------------------------------------------------------
SeqsUpTo(S, k) == UNION {[1..m -> S] : m \in 0..k}

NoRun ==
    /\ papers = <<>>
    /\ batch_size = 1
    /\ provider = "OpenAIProvider"
    /\ Idle

\* --- batch planning: the loop of classify_papers without the backend ----
InitPlan ==
    /\ pc = "plan"
    /\ NoRun
    /\ arg \in [n : 0..MaxPlanPapers, b : 1..MaxPlanBatch]
    /\ res = <<>>

\* one iteration: lines 84-86 give the next batch
PlanBatch ==
    /\ pc = "plan"
    /\ Len(res) < BatchCount(arg.n, arg.b)
    /\ res' = Append(res, BatchPapers(PaperList(arg.n), Len(res), arg.b))
    /\ UNCHANGED <<inputVars, existing_categories, all_results,
                   batch_count, batch_idx, pc, prompt, calls, raised, console,
                   returned, fileVars, reply, histVars, arg>>

\* range(batch_count) is exhausted
PlanDone ==
    /\ pc = "plan"
    /\ Len(res) >= BatchCount(arg.n, arg.b)
    /\ pc' = "planned"
    /\ UNCHANGED <<inputVars, existing_categories, all_results,
                   batch_count, batch_idx, prompt, calls, raised, console,
                   returned, fileVars, reply, histVars, fnVars>>

NextPlan == PlanBatch \/ PlanDone

SpecPlan == InitPlan /\ [][NextPlan]_vars

RECURSIVE Flatten(_)
Flatten(seqs) == IF seqs = <<>> THEN <<>> ELSE Head(seqs) \o Flatten(Tail(seqs))

\* the least c with c * b >= n
CeilDiv(n, b) == SetMin({c \in 0..n : c * b >= n})

\* C3: for b > 0 the batches planned so far are contiguous, non-overlapping
\* and in input order, each holds b papers except a shorter, non-empty last
\* one, and when planning ends there are ceil(n/b) of them and their
\* concatenation is the input.
C3_BatchesCoverInput ==
    pc \in {"plan", "planned"} =>
        LET n == arg.n
            b == arg.b
        IN  /\ Flatten(res) = SubSeq(PaperList(n), 1, Min2(Len(res) * b, n))
            /\ \A k \in 1..Len(res) :
                  \/ Len(res[k]) = b
                  \/ k = CeilDiv(n, b) /\ Len(res[k]) >= 1 /\ Len(res[k]) < b
            /\ Len(res) <= CeilDiv(n, b)
            /\ pc = "planned" =>
                  /\ Len(res) = CeilDiv(n, b)
                  /\ Flatten(res) = PaperList(n)

\* 5 papers in batches of 2: the third and last batch holds paper 5 alone
C3_Witness ==
    /\ pc = "planned"
    /\ arg = [n |-> 5, b |-> 2]
    /\ res = <<<<1, 2>>, <<3, 4>>, <<5>>>>

\* --- index mapping: line 186 ---------------------------------------------
IndexBatches ==
    {BatchPapers(PaperList(n), k, b) :
        n \in 0..MaxPapers, k \in 0..MaxPapers, b \in 1..MaxBatchSize}

IdxValues == (0 - 1)..(MaxBatchSize + 1)

InitIndex ==
    /\ pc = "index"
    /\ NoRun
    /\ arg \in [batch : IndexBatches, paper_indices : SeqsUpTo(IdxValues, MaxIdxLen)]
    /\ res = <<>>

ApplyCategoryPapers ==
    /\ pc = "index"
    /\ res' = CategoryPapers(arg.paper_indices, arg.batch)
    /\ pc' = "indexed"
    /\ UNCHANGED <<inputVars, existing_categories, all_results,
                   batch_count, batch_idx, prompt, calls, raised, console,
                   returned, fileVars, reply, histVars, arg>>

SpecIndex == InitIndex /\ [][ApplyCategoryPapers]_vars

\* the papers of batch that indices, read from position q on, stand for
RECURSIVE Honored(_, _, _)
Honored(indices, batch, q) ==
    IF q > Len(indices) THEN <<>>
    ELSE (IF 1 <= indices[q] /\ indices[q] <= Len(batch)
          THEN <<batch[indices[q]]>> ELSE <<>>)
         \o Honored(indices, batch, q + 1)

\* C7: an index i <= 0 or i > len(batch) is dropped without an error, and
\* every other index of the entry is mapped to batch[i-1], in the order given.
C7_OutOfRangeDropped ==
    pc = "indexed" =>
        /\ res = Honored(arg.paper_indices, arg.batch, 1)
        /\ \A j \in 1..Len(res) : res[j] # IndexError

\* indices 0 and 3 around the valid index 2 of a two-paper batch
C7_Witness ==
    /\ pc = "indexed"
    /\ arg = [batch |-> <<1, 2>>, paper_indices |-> <<0, 2, 3>>]
    /\ res = <<2>>

\* --- text parsing: lines 170-177 -----------------------------------------
InitText ==
    /\ pc = "text"
    /\ NoRun
    /\ arg \in SeqsUpTo(Tokens, MaxTextLen)
    /\ res = [ok |-> FALSE, error |-> "pending"]

ApplyParseText ==
    /\ pc = "text"
    /\ res' = ParseText(arg)
    /\ pc' = "parsed"
    /\ UNCHANGED <<inputVars, existing_categories, all_results,
                   batch_count, batch_idx, prompt, calls, raised, console,
                   returned, fileVars, reply, histVars, arg>>

SpecText == InitText /\ [][ApplyParseText]_vars

\* text[i..j] is brace-matched: it opens at i and first closes at j
BalancedAt(text, i, j) ==
    LET s == SubSeq(text, i, j)
    IN  /\ text[i] = "{"
        /\ \A p \in 1..(Len(s) - 1) : Depth(s, p) >= 1
        /\ Depth(s, Len(s)) = 0

\* the span <<i, j>> of the first balanced top-level object substring of
\* text, or <<0, 0>>
FirstBalancedSpan(text) ==
    LET spans == {x \in (1..Len(text)) \X (1..Len(text)) :
                     x[1] < x[2] /\ BalancedAt(text, x[1], x[2])}
    IN  IF spans = {} THEN <<0, 0>>
        ELSE CHOOSE y \in spans : \A z \in spans : y[1] <= z[1]

FirstBalanced(text) ==
    SubSeq(text, FirstBalancedSpan(text)[1], FirstBalancedSpan(text)[2])

\* C10: when the first balanced object substring of the text is valid JSON
\* and only prose precedes it, parsing succeeds with that object, whatever
\* follows it.
C10_FirstBalancedObjectParsed ==
    (/\ pc = "parsed"
     /\ FirstBalancedSpan(arg) # <<0, 0>>
     /\ JsonValid(FirstBalanced(arg))
     /\ \A p \in 1..(FirstBalancedSpan(arg)[1] - 1) : arg[p] = "t")
        => (res.ok /\ res.value = FirstBalanced(arg))

\* ------------------------------------------------------------------------
\* Parse failures of the run
\* ------------------------------------------------------------------------
\* C11: a completion text without a balanced "{...}" substring, or whose
\* extracted substring is not valid JSON, makes the parser raise its
\* ValueError and the run ends with nothing returned and nothing saved; a
\* text that parses never ends the run, whatever indices its entries hold.
C11_ParseFailureAborts ==
    [][ /\ pc = "reply" =>
              IF \/ FirstBalancedSpan(reply.text) = <<0, 0>>
                 \/ ~JsonValid(RegexSearch(reply.text))
              THEN /\ pc' = "raised"
                   /\ raised'.type = "ValueError"
                   /\ calls' = calls
                   /\ returned' = None
              ELSE /\ pc' = "loop"
                   /\ batch_idx' = batch_idx + 1
        /\ pc = "raised" =>
              /\ pc' = "aborted"
              /\ returned' = None
              /\ saved_files' = <<>>
      ]_vars

\* the reply to batch 1 held braces but no balanced pair, after which the
\* run was abandoned
C11_Witness ==
    /\ pc = "aborted"
    /\ calls = 1
    /\ raised = [type |-> "ValueError", detail |-> "no_json"]
    /\ console[1].batch = 1
    /\ returned = None

\* ------------------------------------------------------------------------
\* One reply applied in isolation: its entries are parsed against the batch
\* and merged into a given state (lines 105-106)
\* ------------------------------------------------------------------------
\* an entry of the "categories" array is a JSON object: any key may be absent
Opt(key, vals) == {<<>>} \cup {key :> v : v \in vals}

\* "a" differs from "A" in letter case only
RawNames == {"", "A", "a", "B"}

RawIndexLists == {<<1>>, <<0, 2, 1, 3>>}

RawEntries ==
    {n @@ p @@ s @@ e : n \in Opt("name", RawNames),
                        p \in Opt("paper_indices", RawIndexLists),
                        s \in Opt("summary", Summaries),
                        e \in Opt("is_existing", BOOLEAN)}

RawReplies ==
    {<<>>} \cup {<<e>> : e \in RawEntries}
           \cup {<<e1, e2>> : e1 \in RawEntries, e2 \in RawEntries}

\* accumulated states a reply can meet; the last one is a seed whose two
\* categories share a name
MergeStates ==
    LET a1 == [category |-> "A", papers |-> <<9>>, summary |-> <<"s", "1">>]
        b  == [category |-> "B", papers |-> <<>>, summary |-> <<"s", "2">>]
        a2 == [category |-> "A", papers |-> <<8>>, summary |-> <<"s", "2">>]
    IN  {<<>>, <<a1>>, <<b, a1>>, <<a1, a2>>}

InitEntries ==
    /\ pc = "entries"
    /\ NoRun
    /\ arg \in [existing : MergeStates,
                batch : {PaperList(n) : n \in 1..MaxBatchSize},
                cats : RawReplies]
    /\ res = [tuples |-> <<>>, merged |-> <<>>]

ApplyParseAndMerge ==
    /\ pc = "entries"
    /\ LET batch_results == ParseEntries(arg.cats, arg.batch)
       IN  res' = [tuples |-> batch_results,
                   merged |-> MergeResults(arg.existing, batch_results)]
    /\ pc' = "merged"
    /\ UNCHANGED <<inputVars, existing_categories, all_results,
                   batch_count, batch_idx, prompt, calls, raised, console,
                   returned, fileVars, reply, histVars, arg>>

SpecEntries == InitEntries /\ [][ApplyParseAndMerge]_vars

\* C12: every category of the state has a non-empty name: an entry whose
\* name is absent and an entry whose name is the empty string both get the
\* same non-empty default name.
C12_NamesNonEmpty ==
    pc = "merged" =>
        /\ \A i \in 1..Len(res.merged) : res.merged[i].category # ""
        /\ \A j, k \in 1..Len(arg.cats) :
              (/\ DictGet(arg.cats[j], "name", "") = ""
               /\ DictGet(arg.cats[k], "name", "") = "")
                 => res.tuples[j].category = res.tuples[k].category

\* the entry d with its is_existing key removed or set
SetFlag(d, e) == e @@ [q \in DOMAIN d \ {"is_existing"} |-> d[q]]

\* the replies that differ from cats in is_existing keys only
FlagVariants(cats) ==
    {[j \in 1..Len(cats) |-> SetFlag(cats[j], f[j])] :
        f \in [1..Len(cats) -> Opt("is_existing", BOOLEAN)]}

\* C13: two replies that differ only in the is_existing flags of their
\* entries lead from the same state and batch to the same state; an entry
\* flagged existing under an unknown name creates a category, an entry
\* flagged new under a known name is appended to that category.
C13_IsExistingIgnored ==
    pc = "merged" =>
        /\ \A other \in FlagVariants(arg.cats) :
              MergeResults(arg.existing, ParseEntries(other, arg.batch)) = res.merged
        /\ \A e \in RawEntries :
              (arg.cats = <<e>> /\ DOMAIN e = {"name", "paper_indices", "summary", "is_existing"}) =>
                 LET known == \E i \in 1..Len(arg.existing) :
                                 arg.existing[i].category = e.name
                 IN  Len(res.merged) = Len(arg.existing) + (IF known THEN 0 ELSE 1)

\* "B" is flagged existing but unknown to the state: a category is created
\* with the summary of the entry
C13_Witness ==
    /\ pc = "merged"
    /\ arg.existing = <<[category |-> "A", papers |-> <<9>>, summary |-> <<"s", "1">>]>>
    /\ arg.cats = <<[name |-> "B", paper_indices |-> <<1>>, summary |-> <<"s", "2">>,
                     is_existing |-> TRUE]>>
    /\ res.merged[2] = [category |-> "B", papers |-> <<1>>, summary |-> <<"s", "2">>]

\* ------------------------------------------------------------------------
\* Batch sizes that are not positive
\* ------------------------------------------------------------------------
\* C14: with a batch size <= 0 the run is rejected before any completion
\* call: no call is ever made and nothing is ever returned to the caller.
C14_NonPositiveBatchSizeRejected ==
    batch_size <= 0 =>
        /\ calls = 0
        /\ pc # "returned"

\* ------------------------------------------------------------------------
\* Seeded runs: provider.classify_papers(papers, existing_categories) called
\* with a state of an earlier run; arg keeps the seed as it was passed
\* ------------------------------------------------------------------------
MaxSeededPapers == 2

Seeds == MergeStates \ {<<>>}

InitSeeded ==
    /\ papers \in {PaperList(n) : n \in 0..MaxSeededPapers}
    /\ batch_size \in 1..MaxBatchSize
    /\ provider = "OpenAIProvider"
    /\ pc = "classify"
    /\ existing_categories \in Seeds
    /\ NotStarted
    /\ arg = existing_categories
    /\ res = None

NextSeeded ==
    \/ ClassifyStart
    \/ BatchCallFails
    \/ BatchCall
    \/ BatchParseFails
    \/ BatchMerge
    \/ ClassifyReturn

SpecSeeded == InitSeeded /\ [][NextSeeded]_vars

\* s is a prefix of t
IsPrefix(s, t) == Len(s) <= Len(t) /\ SubSeq(t, 1, Len(s)) = s

\* C15: a seeded run over n >= 0 papers that succeeds returns the seed with
\* the batch results folded in: every seed category is at its position with
\* its name, its summary and its seed members as a prefix of its members.
C15_SeedFoldedIntoResult ==
    pc = "returned" =>
        /\ Len(arg) <= Len(returned)
        /\ \A i \in 1..Len(arg) :
              /\ returned[i].category = arg[i].category
              /\ returned[i].summary = arg[i].summary
              /\ IsPrefix(arg[i].papers, returned[i].papers)

\* ------------------------------------------------------------------------
\* Growth of the accumulated state
\* ------------------------------------------------------------------------
\* C16: no step removes or moves a category or shortens or rewrites its
\* members: the members before a step are a prefix of the members after it.
\* Only a merge changes the state, and it adds as many categories as the
\* reply holds distinct names that the state did not hold.
C16_StateOnlyGrows ==
    [][ /\ Len(all_results) <= Len(all_results')
        /\ \A i \in 1..Len(all_results) :
              /\ all_results'[i].category = all_results[i].category
              /\ IsPrefix(all_results[i].papers, all_results'[i].papers)
        /\ IF pc = "reply" /\ pc' = "loop"
           THEN Len(all_results') - Len(all_results) =
                   Cardinality({reply.categories[j].name : j \in 1..Len(reply.categories)}
                               \ {all_results[i].category : i \in 1..Len(all_results)})
           ELSE pc # "classify" => all_results' = all_results
      ]_vars

\* the reply to batch 2 named the known "A" and the new "B"
C16_Witness ==
    /\ batch_size = 1
    /\ batch_idx = 2
    /\ pc = "loop"
    /\ Len(all_results) = 2
    /\ all_results[1].category = "A"
    /\ all_results[1].papers = <<1, 2>>
    /\ all_results[2].category = "B"
    /\ all_results[2].papers = <<2>>

\* ------------------------------------------------------------------------
\* Completion calls of a run
\* ------------------------------------------------------------------------
\* C17: with a batch size b > 0 no batch is sent twice: while batch k is
\* the current one, k - 1 calls were made before it and at most one for it;
\* a run that returned made exactly ceil(n/b) calls and makes no further
\* one; a run that failed on batch k made exactly k calls.
C17_OneCallPerBatch ==
    batch_size > 0 =>
        /\ pc = "loop" => calls = batch_idx
        /\ pc = "reply" => calls = batch_idx + 1
        /\ pc \in {"returned", "done"} =>
              calls = CeilDiv(Len(papers), batch_size)
        /\ Failed =>
              /\ calls = batch_idx + 1
              /\ calls = console[1].batch
              /\ calls <= CeilDiv(Len(papers), batch_size)

\* 3 papers in batches of 2 were classified by two calls and saved
C17_Witness ==
    /\ pc = "done"
    /\ Len(papers) = 3
    /\ batch_size = 2
    /\ calls = 2
    /\ saved_files # <<>>

\* ------------------------------------------------------------------------
\* Loading (_parse_papers 568-582, _parse_single_paper 584-604)
\*
\* A JSON value is a record with its type: "dict" with its fields, "list"
\* with its items, or "str" for any other value.
\* ------------------------------------------------------------------------
\* Optional[Paper]: no paper, or one paper held in a sequence
NoPaper == <<>>

\* bool(v) of a string or None
Truthy(v) == v # None /\ v # ""

\* a or b
PyOr(a, b) == IF Truthy(a) THEN a ELSE b

\* mutant: only the title is required
ParseSinglePaper_TitleOnly(item) ==
    IF item.type # "dict" THEN NoPaper
    ELSE LET d        == item.fields
             title    == PyOr(PyOr(DictGet(d, "title", None), DictGet(d, "name", None)), "")
             abstract == PyOr(PyOr(DictGet(d, "abstract", None), DictGet(d, "tldr", None)), "")
         IN  IF ~Truthy(title) THEN NoPaper
             ELSE <<[title |-> title, abstract |-> abstract]>>

\* _parse_single_paper: item.get of a value that is no dict raises, and the
\* except clause returns None as well
ParseSinglePaper(item) ==
    IF item.type # "dict" THEN NoPaper
    ELSE LET d        == item.fields
             title    == PyOr(PyOr(DictGet(d, "title", None), DictGet(d, "name", None)), "")
             abstract == PyOr(PyOr(DictGet(d, "abstract", None), DictGet(d, "tldr", None)), "")
         IN  IF ~Truthy(title) \/ ~Truthy(abstract) THEN NoPaper
             ELSE <<[title |-> title, abstract |-> abstract]>>

RECURSIVE ParseItems(_, _)
ParseItems(items, j) ==
    IF j > Len(items) THEN <<>>
    ELSE LET paper == ParseSinglePaper(items[j])
         IN  (IF paper # NoPaper THEN paper ELSE <<>>) \o ParseItems(items, j + 1)

\* _parse_papers
ParsePapers(data) ==
    IF data.type = "list" THEN ParseItems(data.items, 1)
    ELSE IF data.type = "dict" THEN ParseItems(<<data>>, 1)
    ELSE <<>>

ItemDicts ==
    {t @@ n @@ a @@ l : t \in Opt("title", {None, "", "T"}),
                        n \in Opt("name", {"", "N"}),
                        a \in Opt("abstract", {None, "", "D"}),
                        l \in Opt("tldr", {"", "L"})}

JsonItems ==
    {[type |-> "dict", fields |-> d] : d \in ItemDicts}
        \cup {[type |-> "str"]}

\* the content of a paper file: a list of no, one or two items, one object,
\* or something else
JsonData ==
    {[type |-> "list", items |-> v] :
        v \in {<<>>} \cup {<<i>> : i \in JsonItems}
                     \cup {<<i1, i2>> : i1 \in JsonItems, i2 \in JsonItems}}
        \cup JsonItems

InitLoad ==
    /\ pc = "load"
    /\ NoRun
    /\ arg \in JsonData
    /\ res = <<>>

ApplyParsePapers ==
    /\ pc = "load"
    /\ res' = ParsePapers(arg)
    /\ pc' = "loaded"
    /\ UNCHANGED <<inputVars, existing_categories, all_results,
                   batch_count, batch_idx, prompt, calls, raised, console,
                   returned, fileVars, reply, histVars, arg>>

SpecLoad == InitLoad /\ [][ApplyParsePapers]_vars

\* the item is an object one of whose keys k1, k2 holds a non-empty text
HasText(item, k1, k2) ==
    /\ item.type = "dict"
    /\ \E k \in {k1, k2} \cap DOMAIN item.fields :
          item.fields[k] # None /\ item.fields[k] # ""

\* C18: every paper the loader hands on has a non-empty title and a
\* non-empty abstract; an item without a non-empty title/name or without a
\* non-empty abstract/tldr is left out, and every other item is handed on.
C18_LoadedPapersHaveTitleAndBody ==
    pc = "loaded" =>
        LET items == IF arg.type = "list" THEN arg.items
                     ELSE IF arg.type = "dict" THEN <<arg>> ELSE <<>>
            kept  == SelectSeq(items, LAMBDA it : HasText(it, "title", "name")
                                                  /\ HasText(it, "abstract", "tldr"))
        IN  /\ \A j \in 1..Len(res) :
                  /\ res[j].title \notin {None, ""}
                  /\ res[j].abstract \notin {None, ""}
            /\ Len(res) = Len(kept)

\* of two items the first has a title and an empty abstract and no tldr, the
\* second has a null title, a name and a tldr
C18_Witness ==
    /\ pc = "loaded"
    /\ arg = [type |-> "list", items |->
                <<[type |-> "dict", fields |-> [title |-> "T", abstract |-> ""]],
                  [type |-> "dict", fields |->
                      [title |-> None, name |-> "N", tldr |-> "L"]]>>]
    /\ res = <<[title |-> "N", abstract |-> "L"]>>

\* C19: a seeded run, whether it succeeds or fails, leaves the caller's seed
\* as it was passed: the same categories with the same members.
C19_SeedUnchanged ==
    existing_categories = arg

\* ------------------------------------------------------------------------
\* One merge step, stated without the loop
\* ------------------------------------------------------------------------
\* the position of the first category of cats named name, or 0
FirstNamed(cats, name) ==
    LET hits == {i \in 1..Len(cats) : cats[i].category = name}
    IN  IF hits = {} THEN 0 ELSE SetMin(hits)

\* C20: a merge step takes the tuples of the batch in order. The records of
\* a tuple are appended, in the tuple's order, to the first category of that
\* name; when there is none, a category with the tuple's name, records and
\* summary is appended at the end of the state.
C20_MergeStep ==
    pc = "merged" =>
        LET ex   == arg.existing
            ts   == res.tuples
            out  == res.merged
            idx  == [j \in 1..Len(ts) |-> j]
            news == SelectSeq(idx, LAMBDA j :
                        /\ FirstNamed(ex, ts[j].category) = 0
                        /\ \A k \in 1..(j - 1) : ts[k].category # ts[j].category)
        IN  /\ Len(out) = Len(ex) + Len(news)
            /\ \A i \in 1..Len(ex) :
                  /\ out[i].category = ex[i].category
                  /\ out[i].summary = ex[i].summary
            /\ \A q \in 1..Len(news) :
                  /\ out[Len(ex) + q].category = ts[news[q]].category
                  /\ out[Len(ex) + q].summary = ts[news[q]].summary
            /\ \A i \in 1..Len(out) :
                  LET js == SelectSeq(idx, LAMBDA j :
                                FirstNamed(out, ts[j].category) = i)
                  IN  out[i].papers =
                         (IF i <= Len(ex) THEN ex[i].papers ELSE <<>>)
                            \o Flatten([q \in 1..Len(js) |-> ts[js[q]].papers])

\* the seed holds "A" twice: the records of the tuple "A" go to the first
\* one, and the tuple "B" becomes the third category
C20_Witness ==
    /\ pc = "merged"
    /\ arg.batch = <<1, 2>>
    /\ Len(arg.existing) = 2
    /\ arg.existing[2].category = "A"
    /\ res.tuples = <<[category |-> "A", papers |-> <<1>>, summary |-> <<"s", "2">>],
                      [category |-> "B", papers |-> <<2, 1>>, summary |-> <<"s", "1">>]>>
    /\ res.merged =
          <<[category |-> "A", papers |-> <<9, 1>>, summary |-> <<"s", "1">>],
            [category |-> "A", papers |-> <<8>>, summary |-> <<"s", "2">>],
            [category |-> "B", papers |-> <<2, 1>>, summary |-> <<"s", "1">>]>>

\* ------------------------------------------------------------------------
\* Line 186 over the JSON values a reply can hold as paper_indices elements:
\* an integer, a fraction (counted in halves), a string or null
\* ------------------------------------------------------------------------
JsonIndexValues ==
    {[type |-> "int", value |-> i] : i \in 0..(MaxBatchSize + 1)}
        \cup {[type |-> "float", twice |-> k] : k \in {1, 3, 2 * MaxBatchSize + 3}}
        \cup {[type |-> "str"], [type |-> "null"]}

\* evaluating `0 < idx <= len(papers)` and then `papers[idx - 1]` raises
\* TypeError: a string or None cannot be compared with 0, and a float that
\* passes the test cannot index a list
RaisesTypeError(idx, batch) ==
    \/ idx.type \in {"str", "null"}
    \/ idx.type = "float" /\ 0 < idx.twice /\ idx.twice <= 2 * Len(batch)

\* the list comprehension of line 186 over JSON values
CategoryPapersJson(paper_indices, batch) ==
    IF \E q \in 1..Len(paper_indices) : RaisesTypeError(paper_indices[q], batch)
    THEN [ok |-> FALSE, error |-> "TypeError"]
    ELSE LET ints == SelectSeq(paper_indices, LAMBDA idx : idx.type = "int")
         IN  [ok |-> TRUE,
              papers |-> CategoryPapers([q \in 1..Len(ints) |-> ints[q].value], batch)]

InitJsonIndex ==
    /\ pc = "jsonindex"
    /\ NoRun
    /\ arg \in [batch : {PaperList(n) : n \in 1..MaxBatchSize},
                paper_indices : SeqsUpTo(JsonIndexValues, MaxIdxLen)]
    /\ res = [ok |-> FALSE, error |-> "pending"]

ApplyCategoryPapersJson ==
    /\ pc = "jsonindex"
    /\ res' = CategoryPapersJson(arg.paper_indices, arg.batch)
    /\ pc' = "jsonindexed"
    /\ UNCHANGED <<inputVars, existing_categories, all_results,
                   batch_count, batch_idx, prompt, calls, raised, console,
                   returned, fileVars, reply, histVars, arg>>

SpecJsonIndex == InitJsonIndex /\ [][ApplyCategoryPapersJson]_vars

\* C21: an element of paper_indices that is no usable integer (a string,
\* null, a fraction) is dropped without an error, and the integer elements
\* of the entry that are in range are still mapped to their papers, in order.
C21_MalformedIndexDropped ==
    pc = "jsonindexed" =>
        LET ints == SelectSeq(arg.paper_indices, LAMBDA idx : idx.type = "int")
        IN  /\ res.ok
            /\ res.papers = Honored([q \in 1..Len(ints) |-> ints[q].value],
                                    arg.batch, 1)

\* the names the categories of cats carry
NamesOf(cats) == {cats[i].category : i \in 1..Len(cats)}

\* C22: names are matched by exact string equality: every name of the state
\* or of a tuple has a category of exactly that name after the merge, and a
\* category grows by the records of the tuples of exactly its name and of no
\* other tuple, so tuples whose names differ, be it in letter case only,
\* never end up in one category.
C22_ExactNameMatch ==
    pc = "merged" =>
        LET ex  == arg.existing
            ts  == res.tuples
            out == res.merged
            idx == [j \in 1..Len(ts) |-> j]
        IN  /\ NamesOf(out) = NamesOf(ex) \cup NamesOf(ts)
            /\ \A i \in 1..Len(out) :
                  LET js == SelectSeq(idx, LAMBDA j : ts[j].category = out[i].category)
                      grown == Len(out[i].papers)
                                  - (IF i <= Len(ex) THEN Len(ex[i].papers) ELSE 0)
                  IN  grown = IF FirstNamed(out, out[i].category) = i
                              THEN Len(Flatten([q \in 1..Len(js) |-> ts[js[q]].papers]))
                              ELSE 0

\* the state holds "A"; the reply names "a" and then "A"
C22_Witness ==
    /\ pc = "merged"
    /\ arg.batch = <<1>>
    /\ arg.existing = <<[category |-> "A", papers |-> <<9>>, summary |-> <<"s", "1">>]>>
    /\ res.tuples = <<[category |-> "a", papers |-> <<1>>, summary |-> <<"s", "2">>],
                      [category |-> "A", papers |-> <<1>>, summary |-> <<"s", "2">>]>>
    /\ res.merged =
          <<[category |-> "A", papers |-> <<9, 1>>, summary |-> <<"s", "1">>],
            [category |-> "a", papers |-> <<1>>, summary |-> <<"s", "2">>]>>

\* C23: the parser returns one tuple per entry of the categories array, in
\* the order of the entries: the entry's name, the papers its valid indices
\* stand for (none when paper_indices is absent) and its summary (the empty
\* text when absent). Entries that share a name or have no valid index are
\* neither merged nor dropped.
C23_OneTuplePerEntry ==
    pc = "merged" =>
        /\ Len(res.tuples) = Len(arg.cats)
        /\ \A j \in 1..Len(arg.cats) :
              LET e == arg.cats[j]
              IN  /\ "name" \in DOMAIN e => res.tuples[j].category = e.name
                  /\ res.tuples[j].papers =
                        IF "paper_indices" \in DOMAIN e
                        THEN Honored(e.paper_indices, arg.batch, 1) ELSE <<>>
                  /\ res.tuples[j].summary =
                        IF "summary" \in DOMAIN e THEN e.summary ELSE <<>>

\* two entries named "A", the second without indices and without summary
C23_Witness ==
    /\ pc = "merged"
    /\ arg.batch = <<1, 2>>
    /\ arg.cats = <<[name |-> "A", paper_indices |-> <<0, 2, 1, 3>>,
                     summary |-> <<"s", "1">>],
                    [name |-> "A"]>>
    /\ res.tuples = <<[category |-> "A", papers |-> <<2, 1>>, summary |-> <<"s", "1">>],
                      [category |-> "A", papers |-> <<>>, summary |-> <<>>]>>

\* ------------------------------------------------------------------------
\* Prompt building as a function
\* ------------------------------------------------------------------------
\* C24: building the prompt of a batch changes neither the papers nor the
\* accumulated state, and the prompt is a function of the batch and of the
\* state alone: the numbered papers of the batch, and per category of the
\* state its number, name, member count and summary preview, nothing else.
C24_PromptBuildingIsPure ==
    [][ calls' # calls =>
          LET batch == BatchPapers(papers, batch_idx, batch_size)
          IN  /\ papers' = papers
              /\ all_results' = all_results
              /\ existing_categories' = existing_categories
              /\ prompt' =
                    [papers_text |->
                        [i \in 1..Len(batch) |-> [no |-> i, paper |-> batch[i]]],
                     existing_info |->
                        [i \in 1..Len(all_results) |->
                            [no |-> i,
                             category |-> all_results[i].category,
                             count |-> Len(all_results[i].papers),
                             preview |-> Take(all_results[i].summary, PreviewLen)]]]
      ]_vars

\* the prompt of the second batch of one paper, built over one category
C24_Witness ==
    /\ pc = "reply"
    /\ batch_size = 1
    /\ calls = 2
    /\ prompt.papers_text = <<[no |-> 1, paper |-> 2]>>
    /\ prompt.existing_info =
          <<[no |-> 1, category |-> "B", count |-> 1, preview |-> <<"s", "2">>]>>

\* ------------------------------------------------------------------------
\* Persisting a state, applied in isolation
\* ------------------------------------------------------------------------
\* categories to save: "A/B" and "A_B" have the same sanitized name
SaveCategories ==
    [category : {"A", "A/B", "A_B"}, papers : {<<>>, <<1>>, <<1, 2>>},
     summary : Summaries]

InitSave ==
    /\ pc = "save"
    /\ NoRun
    /\ arg \in {<<>>} \cup {<<c>> : c \in SaveCategories}
                      \cup {<<c1, c2>> : c1 \in SaveCategories, c2 \in SaveCategories}
    /\ res = <<>>

ApplySave ==
    /\ pc = "save"
    /\ res' = SaveClassificationResults(arg)
    /\ pc' = "saved"
    /\ UNCHANGED <<inputVars, existing_categories, all_results,
                   batch_count, batch_idx, prompt, calls, raised, console,
                   returned, fileVars, reply, histVars, arg>>

SpecSave == InitSave /\ [][ApplySave]_vars

\* C25: saving a state writes the summary and one document per category,
\* all to different files. The document of category i holds its name and
\* its members; entry i of the summary's categories holds the name, the
\* member count, the summary and the file of category i; total_papers is the
\* sum of the member counts.
C25_OneDocumentPerCategory ==
    pc = "saved" =>
        /\ Len(res) = Len(arg) + 1
        /\ \A x, y \in 1..Len(res) : res[x].file = res[y].file => x = y
        /\ Len(res[1].data.categories) = Len(arg)
        /\ res[1].data.total_papers = Len(Flatten([i \in 1..Len(arg) |-> arg[i].papers]))
        /\ \A i \in 1..Len(arg) :
              /\ res[1].data.categories[i] =
                    [name |-> arg[i].category, paper_count |-> Len(arg[i].papers),
                     summary |-> arg[i].summary, file |-> res[i + 1].file]
              /\ res[i + 1].data.name = arg[i].category
              /\ res[i + 1].data.papers = arg[i].papers

\* two categories whose names give the same sanitized file name
C25_Witness ==
    /\ pc = "saved"
    /\ Len(arg) = 2
    /\ arg[1].category = "A/B"
    /\ arg[2].category = "A_B"
    /\ arg[1].papers = <<1, 2>>
    /\ arg[2].papers = <<1>>
    /\ res[1].data.total_papers = 3
    /\ res[2].file = <<1, "A_B">>
    /\ res[3].file = <<2, "A_B">>

\* ------------------------------------------------------------------------
\* Searching (search_papers, 606-649). A text is a sequence of characters.
\* ------------------------------------------------------------------------
MaxKeywordLen == 3

RECURSIVE SplitComma(_)
\* keyword.split(',')
SplitComma(s) ==
    LET commas == {i \in 1..Len(s) : s[i] = ","}
    IN  IF commas = {} THEN <<s>>
        ELSE <<SubSeq(s, 1, SetMin(commas) - 1)>>
                \o SplitComma(SubSeq(s, SetMin(commas) + 1, Len(s)))

RECURSIVE Strip(_)
\* k.strip()
Strip(s) ==
    IF s = <<>> THEN s
    ELSE IF Head(s) = " " THEN Strip(Tail(s))
    ELSE IF s[Len(s)] = " " THEN Strip(SubSeq(s, 1, Len(s) - 1))
    ELSE s

\* [k.strip() for k in keyword.split(',') if k.strip()]
Keywords(keyword) ==
    LET parts == SplitComma(keyword)
    IN  SelectSeq([i \in 1..Len(parts) |-> Strip(parts[i])], LAMBDA k : k # <<>>)

\* text.lower()
TextLower(text) == [i \in 1..Len(text) |-> IF text[i] = "A" THEN "a" ELSE text[i]]

\* key in text
Contains(text, key) ==
    \E o \in 1..(Len(text) - Len(key) + 1) : SubSeq(text, o, o + Len(key) - 1) = key

\* mutant: one keyword found is enough
AllKeywordsFound_Any(paper, keywords, case_sensitive) ==
    LET abstract_text == IF case_sensitive THEN paper.abstract ELSE TextLower(paper.abstract)
        title_text    == IF case_sensitive THEN paper.title ELSE TextLower(paper.title)
    IN  \E i \in 1..Len(keywords) :
            LET search_key == IF case_sensitive THEN keywords[i] ELSE TextLower(keywords[i])
            IN  Contains(abstract_text, search_key) \/ Contains(title_text, search_key)

\* the inner loop of lines 629-638
AllKeywordsFound(paper, keywords, case_sensitive) ==
    LET abstract_text == IF case_sensitive THEN paper.abstract ELSE TextLower(paper.abstract)
        title_text    == IF case_sensitive THEN paper.title ELSE TextLower(paper.title)
    IN  \A i \in 1..Len(keywords) :
            LET search_key == IF case_sensitive THEN keywords[i] ELSE TextLower(keywords[i])
            IN  ~(~Contains(abstract_text, search_key) /\ ~Contains(title_text, search_key))

\* search_papers over papers_by_venue, a sequence of venues in insertion
\* order, each with its papers in load order
SearchPapers(by_venue, keyword, case_sensitive) ==
    LET keywords == Keywords(keyword)
    IN  IF keywords = <<>> THEN <<>>
        ELSE Flatten([v \in 1..Len(by_venue) |->
                 SelectSeq(by_venue[v],
                     LAMBDA paper : AllKeywordsFound(paper, keywords, case_sensitive))])

SearchablePapers ==
    [title : {<<"a">>, <<"A", "b">>}, abstract : {<<"b">>, <<"a", "a">>}]

\* papers_by_venue: a first venue with up to two papers, a second with up
\* to one
VenueMaps ==
    {<<v1, v2>> :
        v1 \in {<<>>} \cup {<<p>> : p \in SearchablePapers}
                      \cup {<<p, q>> : p \in SearchablePapers, q \in SearchablePapers},
        v2 \in {<<>>} \cup {<<p>> : p \in SearchablePapers}}

InitSearch ==
    /\ pc = "search"
    /\ NoRun
    /\ arg \in [by_venue : VenueMaps,
                keyword : SeqsUpTo({"a", "A", "b", ",", " "}, MaxKeywordLen),
                case_sensitive : BOOLEAN]
    /\ res = <<>>

ApplySearchPapers ==
    /\ pc = "search"
    /\ res' = SearchPapers(arg.by_venue, arg.keyword, arg.case_sensitive)
    /\ pc' = "searched"
    /\ UNCHANGED <<inputVars, existing_categories, all_results,
                   batch_count, batch_idx, prompt, calls, raised, console,
                   returned, fileVars, reply, histVars, arg>>

SpecSearch == InitSearch /\ [][ApplySearchPapers]_vars

\* the non-blank keywords of the string s: the comma-free stretches between
\* commas, without the blanks around them
KeywordSet(s) ==
    {SubSeq(s, x[1], x[2]) :
        x \in {y \in (1..Len(s)) \X (1..Len(s)) :
                 /\ y[1] <= y[2]
                 /\ \A q \in y[1]..y[2] : s[q] # ","
                 /\ s[y[1]] # " " /\ s[y[2]] # " "
                 /\ \E i \in 1..y[1], j \in y[2]..Len(s) :
                       /\ i = 1 \/ s[i - 1] = ","
                       /\ j = Len(s) \/ s[j + 1] = ","
                       /\ \A q \in i..(y[1] - 1) : s[q] = " "
                       /\ \A q \in (y[2] + 1)..j : s[q] = " "}}

\* kw occurs in text, letter case counting or not
Occurs(kw, text, case_sensitive) ==
    \E o \in 1..(Len(text) - Len(kw) + 1) :
        \A q \in 1..Len(kw) :
            \/ text[o + q - 1] = kw[q]
            \/ ~case_sensitive /\ {text[o + q - 1], kw[q]} = {"a", "A"}

\* C26: search_papers returns exactly the loaded papers in which every
\* non-blank keyword of the comma-separated string occurs in the title or in
\* the abstract (letter case ignored unless case_sensitive), each once, in
\* the order of the venues and within a venue in load order; a string
\* without a non-blank keyword returns nothing.
C26_SearchIsConjunctive ==
    pc = "searched" =>
        LET kws    == KeywordSet(arg.keyword)
            loaded == arg.by_venue[1] \o arg.by_venue[2]
        IN  res = IF kws = {} THEN <<>>
                  ELSE SelectSeq(loaded, LAMBDA paper :
                          \A kw \in kws :
                             \/ Occurs(kw, paper.title, arg.case_sensitive)
                             \/ Occurs(kw, paper.abstract, arg.case_sensitive))

\* keywords "A" and "b", letter case ignored: both papers of the first venue
\* match, the paper of the second venue has no "b"
C26_Witness ==
    /\ pc = "searched"
    /\ arg.keyword = <<"A", ",", "b">>
    /\ ~arg.case_sensitive
    /\ arg.by_venue = <<<<[title |-> <<"a">>, abstract |-> <<"b">>],
                          [title |-> <<"A", "b">>, abstract |-> <<"a", "a">>]>>,
                        <<[title |-> <<"a">>, abstract |-> <<"a", "a">>]>>>>
    /\ res = arg.by_venue[1]

\* ------------------------------------------------------------------------
\* The three providers: OpenAIProvider (72-214), GeminiProvider (231-364)
\* and DeepSeekProvider (380-524) hold copies of the same loop, parser and
\* merge; the DeepSeek loop sleeps after each merged batch
\* ------------------------------------------------------------------------
Providers == {"OpenAIProvider", "GeminiProvider", "DeepSeekProvider"}

\* mutant: the loop goes one batch further when it wakes up
Sleep_SkipsBatch ==
    /\ pc = "sleep"
    /\ pc' = "loop"
    /\ batch_idx' = batch_idx + 1
    /\ UNCHANGED <<inputVars, existing_categories, all_results, batch_count,
                   prompt, calls, raised, console, returned, fileVars, reply,
                   histVars, fnVars>>

\* time.sleep(1) of the DeepSeek loop (417)
Sleep ==
    /\ pc = "sleep"
    /\ pc' = "loop"
    /\ UNCHANGED <<inputVars, existing_categories, all_results, batch_count,
                   batch_idx, prompt, calls, raised, console, returned,
                   fileVars, reply, histVars, fnVars>>

InitProviders ==
    /\ papers \in {PaperList(n) : n \in 0..MaxSeededPapers}
    /\ batch_size \in 1..MaxBatchSize
    /\ provider \in Providers
    /\ pc = "classify"
    /\ existing_categories \in
          {<<>>, <<[category |-> "A", papers |-> <<9>>, summary |-> <<"s", "1">>]>>}
    /\ NotStarted
    /\ arg = existing_categories
    /\ res = None

NextProviders ==
    \/ ClassifyStart
    \/ BatchCallFails
    \/ BatchCall
    \/ BatchParseFails
    \/ BatchMerge
    \/ Sleep
    \/ ClassifyReturn

SpecProviders == InitProviders /\ [][NextProviders]_vars

FileStems ==
    {<<"i", "c", "l", "r">>, <<"i", "c", "m", "l">>, <<"n", "i", "p", "s">>,
     <<"n", "e", "u", "r", "i", "p", "s">>, <<"a", "c", "l">>}

\* the condition of the elif at line 562, `'neurips' or 'nips' in ...`: the
\* value of the `or` is its first operand, a non-empty string
NeuripsTest(filename) ==
    Truthy(PyOr("neurips", Contains(TextLower(filename), <<"n", "i", "p", "s">>)))

ExtractVenueName(filename) ==
    IF Contains(TextLower(filename), <<"i", "c", "l", "r">>) THEN "ICLR 2025"
    ELSE IF NeuripsTest(filename) THEN "NeurIPS 2025"
    ELSE IF Contains(TextLower(filename), <<"i", "c", "m">>) THEN "ICML 2025"
    ELSE filename

\* the valid papers of the k-th file: one paper, marked with its file
PapersOfFile(k) == <<[file |-> k]>>

\* d[key] = value on a dict kept as its items in insertion order
DictSet(d, key, value) ==
    LET hits == {i \in 1..Len(d) : d[i].key = key}
    IN  IF hits # {} THEN [d EXCEPT ![SetMin(hits)].value = value]
        ELSE Append(d, [key |-> key, value |-> value])

InitLoadFiles ==
    /\ pc = "files"
    /\ NoRun
    /\ arg \in LET files == [stem : FileStems, exists : BOOLEAN]
               IN  {<<f>> : f \in files}
                      \cup {<<f, g>> : f \in files, g \in files}
    /\ res = [processed |-> 0, papers_by_venue |-> <<>>]

\* one iteration of the loop of load_papers
LoadFile ==
    /\ pc = "files"
    /\ res.processed < Len(arg)
    /\ LET k == res.processed + 1
       IN  res' = [processed |-> k,
                   papers_by_venue |->
                      IF ~arg[k].exists THEN res.papers_by_venue
                      ELSE DictSet(res.papers_by_venue,
                                   ExtractVenueName(arg[k].stem), PapersOfFile(k))]
    /\ UNCHANGED <<inputVars, existing_categories, all_results, batch_count,
                   batch_idx, pc, prompt, calls, raised, console, returned,
                   fileVars, reply, histVars, arg>>

\* the loop of load_papers is exhausted
LoadFilesDone ==
    /\ pc = "files"
    /\ res.processed >= Len(arg)
    /\ pc' = "files_loaded"
    /\ UNCHANGED <<inputVars, existing_categories, all_results, batch_count,
                   batch_idx, prompt, calls, raised, console, returned,
                   fileVars, reply, histVars, fnVars>>

NextLoadFiles == LoadFile \/ LoadFilesDone

SpecLoadFiles == InitLoadFiles /\ [][NextLoadFiles]_vars

\* C28: after load_papers the valid papers of every existing file are held
\* in papers_by_venue: no file's papers were replaced by a later file's.
C28_EveryFileStaysLoaded ==
    pc = "files_loaded" =>
        \A k \in 1..Len(arg) :
            arg[k].exists =>
                \E v \in 1..Len(res.papers_by_venue) :
                    \E q \in 1..Len(res.papers_by_venue[v].value) :
                        res.papers_by_venue[v].value[q] = PapersOfFile(k)[1]

\* ------------------------------------------------------------------------
\* Pipeline runs that find or classify nothing
\* ------------------------------------------------------------------------
\* C29: when the search found no paper the pipeline ends without a
\* completion call and without any file, reporting success = false and
\* papers_found = 0; when classification returned no category it ends
\* without a classification file, reporting success = false.
C29_NothingFoundNothingSaved ==
    pc = "done" =>
        IF papers = <<>>
        THEN /\ calls = 0
             /\ ~search_saved
             /\ saved_files = <<>>
             /\ pipeline_result = [success |-> FALSE, papers_found |-> 0]
        ELSE returned = <<>> =>
                /\ saved_files = <<>>
                /\ pipeline_result = [success |-> FALSE, papers_found |-> Len(papers)]

\* two batches were answered without any category
C29_Witness ==
    /\ pc = "done"
    /\ calls = 2
    /\ returned = <<>>
    /\ search_saved
    /\ ~pipeline_result.success

\* ------------------------------------------------------------------------
\* The viewer (src/code/main.py): ClassificationVisualizer.load_year_data
\* (74-144), get_category_stats (201-216) and the routes of create_app
\* (1082-1133). arg is the data directory, one entry per year; res holds the
\* visualizer's fields, the position of the load request in progress and the
\* latest response sent. Flask serves requests in threads, so a stats or
\* categories request can run between two steps of a load request.
\* ------------------------------------------------------------------------
Years == {"2024", "2025"}

\* the categories stored for a year: "A" with one paper, "B" with two
StoredCategories(year) ==
    <<[name |-> "A", papers |-> <<<<year, 1>>>>],
      [name |-> "B", papers |-> <<<<year, 2>>, <<year, 3>>>>]>>

\* a year directory: missing, without a result directory, with a result
\* directory without JSON files, with JSON files but no summary file, or
\* with a summary and its category files
YearDirs(year) ==
    {[kind |-> "missing"], [kind |-> "no_subdirs"], [kind |-> "no_json"],
     [kind |-> "no_summary"],
     [kind |-> "results", categories |-> StoredCategories(year)]}

NoResponse == [route |-> "none"]

InitViewer ==
    /\ pc = "viewer"
    /\ NoRun
    /\ arg \in {[y \in Years |-> IF y = "2024" THEN d1 ELSE d2] :
                    d1 \in YearDirs("2024"), d2 \in YearDirs("2025")}
    /\ res = [categories |-> <<>>, all_papers |-> <<>>, current_year |-> None,
              loading |-> None, step |-> "idle", next |-> 0,
              before |-> [categories |-> <<>>, all_papers |-> <<>>,
                          current_year |-> None],
              returned |-> "none", served |-> NoResponse]

ViewerUnchanged ==
    UNCHANGED <<inputVars, existing_categories, all_results, batch_count,
                batch_idx, pc, prompt, calls, raised, console, returned,
                fileVars, reply, histVars, arg>>

\* load_year_data up to the clearing of the current data (84-100)
LoadYearStart ==
    /\ pc = "viewer"
    /\ res.step = "idle"
    /\ \E year \in Years :
          LET snapshot == [categories |-> res.categories,
                           all_papers |-> res.all_papers,
                           current_year |-> res.current_year]
          IN  IF arg[year].kind \in {"missing", "no_subdirs"}
              THEN res' = [res EXCEPT !.before = snapshot, !.returned = "False"]
              ELSE res' = [res EXCEPT !.before = snapshot, !.returned = "none",
                                      !.categories = <<>>, !.all_papers = <<>>,
                                      !.loading = year, !.step = "files"]
    /\ ViewerUnchanged

\* the search for JSON files and for the summary file (103-109)
LoadYearFiles ==
    /\ pc = "viewer"
    /\ res.step = "files"
    /\ res' = IF arg[res.loading].kind = "no_json"
              THEN [res EXCEPT !.returned = "False", !.loading = None,
                               !.step = "idle"]
              ELSE IF arg[res.loading].kind = "no_summary"
              THEN [res EXCEPT !.current_year = res.loading, !.returned = "True",
                               !.loading = None, !.step = "idle"]
              ELSE [res EXCEPT !.step = "categories", !.next = 1]
    /\ ViewerUnchanged

\* one category file is read and stored (115-141)
LoadYearCategory ==
    /\ pc = "viewer"
    /\ res.step = "categories"
    /\ res.next <= Len(arg[res.loading].categories)
    /\ LET cat == arg[res.loading].categories[res.next]
       IN  res' = [res EXCEPT
                     !.all_papers = @ \o [q \in 1..Len(cat.papers) |->
                                            <<cat.name, cat.papers[q]>>],
                     !.categories = Append(@, [name |-> cat.name,
                                               papers |-> cat.papers,
                                               count |-> Len(cat.papers)]),
                     !.next = @ + 1]
    /\ ViewerUnchanged

\* self.current_year = year; return True (143-144)
LoadYearFinish ==
    /\ pc = "viewer"
    /\ res.step = "categories"
    /\ res.next > Len(arg[res.loading].categories)
    /\ res' = [res EXCEPT !.current_year = res.loading, !.returned = "True",
                          !.loading = None, !.step = "idle", !.next = 0]
    /\ ViewerUnchanged

\* GET /api/categories (1116-1133), answered next to the year of /api/years
ServeCategories ==
    /\ pc = "viewer"
    /\ res' = [res EXCEPT !.served =
                  [route |-> "categories", current_year |-> res.current_year,
                   names |-> [i \in 1..Len(res.categories) |-> res.categories[i].name],
                   total_papers |-> TotalPapers(res.categories)]]
    /\ ViewerUnchanged

\* GET /api/stats (1110-1114) with get_category_stats (201-216)
ServeStats ==
    /\ pc = "viewer"
    /\ res' = [res EXCEPT !.served =
                  [route |-> "stats", current_year |-> res.current_year,
                   names |-> [i \in 1..Len(res.categories) |-> res.categories[i].name],
                   total_papers |-> Len(res.all_papers)]]
    /\ ViewerUnchanged

NextViewer ==
    \/ LoadYearStart
    \/ LoadYearFiles
    \/ LoadYearCategory
    \/ LoadYearFinish
    \/ ServeCategories
    \/ ServeStats

SpecViewer == InitViewer /\ [][NextViewer]_vars

\* the categories the directory holds for year
CompleteCategories(year) ==
    IF year = None THEN <<>>
    ELSE IF arg[year].kind = "results" THEN arg[year].categories
    ELSE <<>>

\* C30: a load_year_data call that returned False left categories,
\* all_papers and current_year as they were before the call, and every
\* response of /api/categories and /api/stats holds the complete data of the
\* year that is current_year when it is sent: all its categories and all
\* its papers.
C30_ViewerServesCurrentYear ==
    pc = "viewer" =>
        /\ res.returned = "False" =>
              /\ res.categories = res.before.categories
              /\ res.all_papers = res.before.all_papers
              /\ res.current_year = res.before.current_year
        /\ res.served.route # "none" =>
              LET complete == CompleteCategories(res.served.current_year)
              IN  /\ res.served.names =
                        [i \in 1..Len(complete) |-> complete[i].name]
                  /\ res.served.total_papers = TotalPapers(complete)

====
